---- MODULE Spec2Model ----
(***************************************************************************)
(* Session-token authentication and ownership-scoped task access of the    *)
(* task-tracking API: the verifyAuth middleware, the UserService and       *)
(* TaskService operations and the repositories they call, over a store of  *)
(* user and task documents.                                                *)
(***************************************************************************)
EXTENDS Integers, Sequences, FiniteSets, TLC

(* ------------------------------ bounds -------------------------------- *)

\* Largest value of the wall clock in seconds (the iat claim of a token).
MaxClock == 1

\* Largest length of a user's tokens array the model lets a login reach.
MaxTokens == 2

(* ----------------------------- universes ------------------------------ *)

None == "none"

Ids == {"u1", "u2"}
TaskIds == {"k1", "k2"}
Reqs == {1, 2}
Names == {"n1", "n2"}
ValidEmails == {"e1", "e2"}
InvalidEmail == "not-an-email"
Passwords == {"p1", "p2"}
Ages == {0, 1}
InvalidAge == -1
Descriptions == {"d1", "d2"}

(* --------------------------- error taxonomy --------------------------- *)

OK == "ok"
AuthenticationError == "AuthenticationError"
ValidationError == "ValidationError"
ResourceNotFoundError == "ResourceNotFoundError"
GenericError == "Error"

\* The name of the error jwt.verify throws for a token it does not accept.
JsonWebTokenError == "JsonWebTokenError"

\* handle-errors.js: a custom exception answers with its own status code,
\* anything else with 500.
handleErrors(outcome) ==
    CASE outcome = OK -> 200
      [] outcome = AuthenticationError -> 401
      [] outcome = ValidationError -> 400
      [] outcome = ResourceNotFoundError -> 404
      [] OTHER -> 500

(* ------------------------------- tokens -------------------------------- *)

\* A token string.  kind "jwt" is a token signed under JWT_SECRET whose
\* payload is { _id: sub, iat }; "forged" has the same structure but a
\* signature that does not verify; "malformed" is a string such as '123';
\* "empty" is the empty string.
EmptyToken == [kind |-> "empty", sub |-> None, iat |-> 0]
MalformedToken == [kind |-> "malformed", sub |-> None, iat |-> 0]
SignedTokens == [kind : {"jwt"}, sub : Ids, iat : 0..MaxClock]
ForgedTokens == [kind : {"forged"}, sub : {"u1"}, iat : {0}]
TokenStrings == {EmptyToken, MalformedToken} \cup SignedTokens \cup ForgedTokens

\* A token whose payload names the same subject for every user.
generateAuthToken_FixedSubject(id, now) ==
    [kind |-> "jwt", sub |-> "u1", iat |-> now]

\* AuthenticationService.generateAuthToken: jwt.sign({ _id }, secret).  The
\* signature is a function of the payload, and the payload is the subject
\* and the issue time in whole seconds.
generateAuthToken(id, now) == [kind |-> "jwt", sub |-> id, iat |-> now]

\* AuthenticationService.verifyAuthToken: jwt.verify(token, secret) returns
\* the payload or throws.
verifyAuthToken(token) ==
    IF token.kind = "jwt"
    THEN [threw |-> FALSE, _id |-> token.sub]
    ELSE [threw |-> TRUE, _id |-> None]

(* ------------------------------ passwords ------------------------------ *)

NoPassword == [hashed |-> FALSE, of |-> None]

\* PasswordService.hash
hash(plainTextPassword) == [hashed |-> TRUE, of |-> plainTextPassword]

\* A comparison that accepts any plaintext for a stored hash.
compare_Any(plainText, hashedPassword) == hashedPassword.hashed

\* PasswordService.compare
compare(plainText, hashedPassword) ==
    hashedPassword.hashed /\ hashedPassword.of = plainText

(* ------------------------------ documents ------------------------------ *)

Range(s) == {s[i] : i \in 1..Len(s)}

\* An avatar path: the key of an object in cloud storage, relative or made
\* absolute by the storage adapter.  The three entries of avatarPaths
\* (original, small, large) are always set together and alike; the model has
\* the one of `original`.
NoProfile == [absolute |-> FALSE, key |-> "no-profile"]

\* appConfig.cloudStorage.avatars.getDefaultAvatarPaths()
getDefaultAvatarPaths == [absolute |-> FALSE, key |-> "original"]

\* The key processAndUploadAvatarImage stores a user's own image under.
UploadedAvatarPaths == [absolute |-> FALSE, key |-> "avatar"]

\* FileStorageAdapter.getAbsoluteFileURI: `${partialFileURI}/${key}`
getAbsoluteFileURI(path) == [absolute |-> TRUE, key |-> path.key]

\* FileStorageAdapter.getRelativeFileURI: the URI with `${partialFileURI}/`
\* taken out.
getRelativeFileURI(path) == [absolute |-> FALSE, key |-> path.key]

\* UserService._mapRelativeAvatarPathsToAbsoluteAvatarURIs
_mapRelativeAvatarPathsToAbsoluteAvatarURIs(relativeAvatarPaths) ==
    getAbsoluteFileURI(IF relativeAvatarPaths # NoProfile
                       THEN relativeAvatarPaths
                       ELSE getDefaultAvatarPaths)

\* models/user.js
NoUser == [exists |-> FALSE, name |-> None, email |-> None,
           password |-> NoPassword, age |-> 0, avatarPaths |-> NoProfile,
           tokens |-> <<>>]

\* models/task.js
NoTask == [exists |-> FALSE, description |-> None, completed |-> FALSE,
           owner |-> None]

\* The safe user object: UserService._stripSensitiveData drops password and
\* tokens.
NoSafeUser == [_id |-> None, name |-> None, email |-> None, age |-> 0,
               avatarPaths |-> NoProfile]

_stripSensitiveData(id, user) ==
    [_id |-> id, name |-> user.name, email |-> user.email, age |-> user.age,
     avatarPaths |-> user.avatarPaths]

\* The object UserService._transformUser(user) returns: the safe user, with
\* the avatar paths mapped to absolute URIs unless they are 'no-profile'.
transformedUser(id, user) ==
    [_stripSensitiveData(id, user) EXCEPT
        !.avatarPaths = IF @ # NoProfile
                        THEN _mapRelativeAvatarPathsToAbsoluteAvatarURIs(@)
                        ELSE @]

(* ------------------------------- state --------------------------------- *)

VARIABLES
    users,      \* the users collection: Ids -> user document or NoUser
    tasks,      \* the tasks collection: TaskIds -> task document or NoTask
    clock,      \* Date.now() in whole seconds
    req,        \* per request: position in the middleware chain, req.token,
                \* and the user of the request-scoped context
    creator,    \* history: the context user of the request that created a task
    last        \* the response of the operation that ran last

vars == <<users, tasks, clock, req, creator, last>>

IdleReq == [pc |-> "idle", token |-> EmptyToken, user |-> NoSafeUser]

\* The keys of user.toJSON(): the paths of the user schema and the _id.
UserDocumentKeys == (DOMAIN NoUser \ {"exists"}) \cup {"_id"}

\* The keys of UserService._transformUser(user): _stripSensitiveData takes
\* password and tokens out of the object.
_transformUser(keys) == keys \ {"password", "tokens"}

\* The keys of the user object a UserService method resolves with: deleteUser
\* returns what UserRepository.deleteById returns, user.toJSON(); the other
\* methods return this._transformUser(...) of the document, the task
\* operations return no user, and a method that throws returns nothing.
returnedUser(op, outcome) ==
    IF outcome # OK THEN {}
    ELSE IF op = "deleteUser" THEN UserDocumentKeys
    ELSE IF op \in {"signUp", "login", "logout", "logoutAll", "verifyAuth",
                    "updateUser", "uploadUserAvatar", "deleteUserAvatar"}
         THEN _transformUser(UserDocumentKeys)
    ELSE {}

\* A response, with what the operation was given and did: the request that
\* carried it, the authenticated user, the token, the task id, the body sent
\* back, the owner the client put in the task data (createNewTask only), the
\* keys of the user object the service method returned, the numbers of
\* repository calls and of token decodings, and the number of array entries a
\* $pull removed (logoutUser only), and the ids of the tasks a query returned,
\* in the order returned (retrieveTasksByQueryForUser only), and the number
\* of objects deleted from cloud storage (deleteUserAvatar only).
Resp(op, r, user, outcome, token, task, body, dbCalls, decoderCalls) ==
    [op |-> op, req |-> r, user |-> user, outcome |-> outcome, token |-> token,
     task |-> task, body |-> body, sent |-> None, pulled |-> 0,
     list |-> <<>>, blobDeletes |-> 0,
     returns |-> returnedUser(op, outcome), dbCalls |-> dbCalls,
     decoderCalls |-> decoderCalls]

Init ==
    /\ users = [u \in Ids |-> NoUser]
    /\ tasks = [k \in TaskIds |-> NoTask]
    /\ clock = 0
    /\ req = [r \in Reqs |-> IdleReq]
    /\ creator = [k \in TaskIds |-> None]
    /\ last = Resp("init", 0, None, OK, EmptyToken, None, NoTask, 0, 0)

(* --------------------------- UserRepository ---------------------------- *)

\* A lookup by _id alone, without the 'tokens.token' condition.
readByIdAndToken_IdOnly(us, id, token) ==
    IF id \in Ids /\ us[id].exists THEN id ELSE None

\* UserRepository.readByQuery({ _id, 'tokens.token': token }): the id of the
\* matching document, or None.
readByIdAndToken(us, id, token) ==
    IF id \in Ids /\ us[id].exists /\ token \in Range(us[id].tokens)
    THEN id ELSE None

\* UserRepository.readByQuery({ email })
readByEmail(us, email) ==
    IF \E u \in Ids : us[u].exists /\ us[u].email = email
    THEN CHOOSE u \in Ids : us[u].exists /\ us[u].email = email
    ELSE None

\* A push that stores the entry twice.
pushToken_Twice(tokens, token) == Append(Append(tokens, token), token)

\* $push: { tokens: { token } }
pushToken(tokens, token) == Append(tokens, token)

\* A removal that takes out the first matching entry and leaves its copies.
pullToken_FirstOnly(tokens, token) ==
    IF \E i \in DOMAIN tokens : tokens[i] = token
    THEN LET first == CHOOSE i \in DOMAIN tokens :
                          /\ tokens[i] = token
                          /\ \A j \in 1..(i - 1) : tokens[j] # token
         IN  SubSeq(tokens, 1, first - 1) \o SubSeq(tokens, first + 1, Len(tokens))
    ELSE tokens

\* A removal that empties the array instead of pulling the one token.
pullToken_Everything(tokens, token) == <<>>

\* $pull: { tokens: { token } }
pullToken(tokens, token) == SelectSeq(tokens, LAMBDA x : x # token)

\* An update that replaces the array: $set: { tokens: [{ token }] }.
updateTokensById_Replace(us, id, token) ==
    [us EXCEPT ![id].tokens = <<token>>]

\* UserRepository.updateTokensById
updateTokensById(us, id, token) ==
    [us EXCEPT ![id].tokens = pushToken(@, token)]

\* A removal that pulls every entry of the array.
removeTokenById_All(us, id, token) ==
    [us EXCEPT ![id].tokens = <<>>]

\* UserRepository.removeTokenById
removeTokenById(us, id, token) ==
    [us EXCEPT ![id].tokens = pullToken(@, token)]

\* A removal that drops only the oldest entry.
removeAllTokensById_OldestOnly(us, id) ==
    [us EXCEPT ![id].tokens = IF @ = <<>> THEN @ ELSE Tail(@)]

\* UserRepository.removeAllTokensById
removeAllTokensById(us, id) ==
    [us EXCEPT ![id].tokens = <<>>]

\* A removal that clears the credential and keeps the document.
deleteById_KeepDocument(us, id) ==
    [us EXCEPT ![id].password = NoPassword]

\* UserRepository.deleteById: user.remove() of the document found by _id.
deleteById(us, id) == [us EXCEPT ![id] = NoUser]

(* ------------------------------ middleware ----------------------------- *)

\* The Authorization header of a request.
Headers ==
    {[present |-> FALSE, scheme |-> "", value |-> EmptyToken]}
    \cup [present : {TRUE}, scheme : {"Bearer "}, value : TokenStrings]
    \cup [present : {TRUE}, scheme : {""}, value : {MalformedToken}]

\* strip-bearer-token.js: req.header('Authorization').replace('Bearer ', ''),
\* or '' when the header is absent.
stripBearerToken(header) ==
    IF header.present THEN header.value ELSE EmptyToken

\* verify-auth.js: the outcome of the middleware for a token.
verifyAuthOutcome(us, token) ==
    IF verifyAuthToken(token).threw THEN GenericError
    ELSE IF readByIdAndToken(us, verifyAuthToken(token)._id, token) = None
         THEN AuthenticationError
         ELSE OK

\* verify-auth.js
verifyAuth(r, header) ==
    LET token == stripBearerToken(header)
        outcome == verifyAuthOutcome(users, token)
        id == verifyAuthToken(token)._id
    IN  /\ req[r].pc = "idle"
        /\ \A q \in Reqs : q < r => req[q].pc # "idle"
        /\ token.iat <= clock
        /\ req' = [req EXCEPT ![r] =
                     IF outcome = OK
                     THEN [pc |-> "authed", token |-> token,
                           user |-> transformedUser(id, users[id])]
                     ELSE IdleReq]
        /\ last' = Resp("verifyAuth", r, IF outcome = OK THEN id ELSE None,
                        outcome, token, None, NoTask,
                        IF verifyAuthToken(token).threw THEN 0 ELSE 1, 1)
        /\ UNCHANGED <<users, tasks, clock, creator>>

(* ------------------------------- clock --------------------------------- *)

Tick ==
    /\ clock < MaxClock
    /\ clock' = clock + 1
    /\ UNCHANGED <<users, tasks, req, creator, last>>

(* ------------------------------ UserService ---------------------------- *)

\* The _id values a new document can get: an ObjectId is generated once, so
\* a new user's _id is that of no user and the owner of no task in the store.
FreshIds ==
    {i \in Ids : /\ ~users[i].exists
                 /\ \A k \in TaskIds : ~(tasks[k].exists /\ tasks[k].owner = i)
                 /\ \A r \in Reqs : req[r].user._id # i}

\* The body of POST /users.
SignUpInputs ==
    [name : Names, email : ValidEmails \cup {InvalidEmail},
     password : Passwords \cup {None}, age : Ages \cup {InvalidAge}]

\* A schema validation that forgets the age validator.
validateUser_EmailOnly(userData) ==
    userData.email # InvalidEmail

\* The validators of userSchema that user.save() runs: the e-mail address is
\* well formed and the age is not negative.
validateUser(userData) ==
    /\ userData.email # InvalidEmail
    /\ userData.age >= 0

\* UserService.signUpNewUser
signUpNewUser(userData) ==
    LET token(id) == generateAuthToken(id, clock)
        created(id) == [exists |-> TRUE, name |-> userData.name,
                        email |-> userData.email,
                        password |-> hash(userData.password),
                        age |-> userData.age,
                        avatarPaths |-> getDefaultAvatarPaths, tokens |-> <<>>]
    IN  \/ /\ userData.password = None
           /\ last' = Resp("signUp", 0, None, ValidationError, EmptyToken, None,
                           NoTask, 0, 0)
           /\ UNCHANGED <<users, tasks, clock, req, creator>>
        \/ /\ userData.password # None
           /\ \/ ~validateUser(userData)
              \/ readByEmail(users, userData.email) # None
           /\ last' = Resp("signUp", 0, None, ValidationError, EmptyToken, None,
                           NoTask, 1, 0)
           /\ UNCHANGED <<users, tasks, clock, req, creator>>
        \/ /\ userData.password # None
           /\ validateUser(userData)
           /\ readByEmail(users, userData.email) = None
           /\ FreshIds # {}
           /\ LET id == CHOOSE free \in FreshIds : TRUE
              IN  /\ users' = updateTokensById(
                               [users EXCEPT ![id] = created(id)], id, token(id))
                  /\ last' = Resp("signUp", 0, id, OK, token(id), None, NoTask,
                                  2, 0)
           /\ UNCHANGED <<tasks, clock, req, creator>>

\* The credentials of POST /users/login; either may be missing.
LoginEmails == ValidEmails \cup {None}
LoginPasswords == Passwords \cup {None}

\* UserService.loginUser
loginUser(email, password) ==
    LET id == readByEmail(users, email)
        isAuthenticated ==
            IF id # None THEN compare(password, users[id].password) ELSE FALSE
        token == generateAuthToken(id, clock)
    IN  \/ /\ (email = None \/ password = None)
           /\ last' = Resp("login", 0, None, ValidationError, EmptyToken,
                           None, NoTask, 0, 0)
           /\ UNCHANGED <<users, tasks, clock, req, creator>>
        \/ /\ email # None /\ password # None
           /\ ~isAuthenticated
           /\ last' = Resp("login", 0, None, AuthenticationError, EmptyToken,
                           None, NoTask, 1, 0)
           /\ UNCHANGED <<users, tasks, clock, req, creator>>
        \/ /\ email # None /\ password # None
           /\ isAuthenticated
           /\ Len(users[id].tokens) < MaxTokens
           /\ users' = updateTokensById(users, id, token)
           /\ last' = Resp("login", 0, id, OK, token, None, NoTask, 2, 0)
           /\ UNCHANGED <<tasks, clock, req, creator>>

\* UserService.loginUser up to the comparison of the passwords: the first
\* part of a login whose repository calls other requests can interleave
\* with.  The request keeps the user it read.
loginUserRead(r, email, password) ==
    LET id == readByEmail(users, email)
        isAuthenticated ==
            IF id # None THEN compare(password, users[id].password) ELSE FALSE
    IN  /\ req[r].pc = "idle"
        /\ \A q \in Reqs : q < r => req[q].pc # "idle"
        /\ \/ /\ (email = None \/ password = None)
              /\ last' = Resp("login", r, None, ValidationError, EmptyToken,
                              None, NoTask, 0, 0)
              /\ req' = req
           \/ /\ email # None /\ password # None
              /\ ~isAuthenticated
              /\ last' = Resp("login", r, None, AuthenticationError, EmptyToken,
                              None, NoTask, 1, 0)
              /\ req' = req
           \/ /\ email # None /\ password # None
              /\ isAuthenticated
              /\ req' = [req EXCEPT ![r] =
                           [pc |-> "login", token |-> EmptyToken,
                            user |-> _stripSensitiveData(id, users[id])]]
              /\ last' = last
        /\ UNCHANGED <<users, tasks, clock, creator>>

\* UserService.loginUser from generateAuthToken on: the token is signed for
\* the user that was read and pushed with updateTokensById; updateById calls
\* toJSON() on what findByIdAndUpdate found, a TypeError when the document
\* is gone.
loginUserWrite(r) ==
    LET id == req[r].user._id
        token == generateAuthToken(id, clock)
    IN  /\ req[r].pc = "login"
        /\ req' = [req EXCEPT ![r] = IdleReq]
        /\ IF users[id].exists
           THEN /\ Len(users[id].tokens) < MaxTokens
                /\ users' = updateTokensById(users, id, token)
                /\ last' = Resp("login", r, id, OK, token, None, NoTask, 2, 0)
           ELSE /\ users' = users
                /\ last' = Resp("login", r, id, GenericError, EmptyToken, None,
                                NoTask, 2, 0)
        /\ UNCHANGED <<tasks, clock, creator>>

\* UserService.logoutUser, called by POST /users/logout with req.token
logoutUser(r) ==
    LET id == req[r].user._id
        token == req[r].token
    IN  /\ req[r].pc = "authed"
        /\ req' = [req EXCEPT ![r] = IdleReq]
        /\ IF users[id].exists
           THEN /\ users' = removeTokenById(users, id, token)
                /\ last' = [Resp("logout", r, id, OK, token, None, NoTask, 1, 0)
                               EXCEPT !.pulled = Len(users[id].tokens)
                                                   - Len(users'[id].tokens)]
           ELSE /\ users' = users
                /\ last' = Resp("logout", r, id, GenericError, token, None,
                                NoTask, 1, 0)
        /\ UNCHANGED <<tasks, clock, creator>>

\* UserService.logoutUserAll
logoutUserAll(r) ==
    LET id == req[r].user._id
        token == req[r].token
    IN  /\ req[r].pc = "authed"
        /\ req' = [req EXCEPT ![r] = IdleReq]
        /\ IF users[id].exists
           THEN /\ users' = removeAllTokensById(users, id)
                /\ last' = Resp("logoutAll", r, id, OK, token, None, NoTask, 1, 0)
           ELSE /\ users' = users
                /\ last' = Resp("logoutAll", r, id, GenericError, token, None,
                                NoTask, 1, 0)
        /\ UNCHANGED <<tasks, clock, creator>>

\* The updates object of PATCH /users/me: the keys it has and, for the keys of
\* the allow-list, their values.
UserUpdateKeys == {"name", "email", "password", "age", "_id", "tokens"}

UserUpdateInputs ==
    {u \in [keys : SUBSET UserUpdateKeys, name : Names,
            email : ValidEmails \cup {InvalidEmail}, password : Passwords,
            age : Ages] :
        /\ "name" \notin u.keys => u.name = "n1"
        /\ "email" \notin u.keys => u.email = "e1"
        /\ "password" \notin u.keys => u.password = "p1"
        /\ "age" \notin u.keys => u.age = 0}

\* An allow-list test written with `some` in place of `every`.
isValidOperation_Some(updateKeys, allowedUpdates) ==
    updateKeys \cap allowedUpdates # {}

\* The allow-list test shared by updateUser and updateTaskById:
\* updateKeys.every(update => allowedUpdates.includes(update))
isValidOperation(updateKeys, allowedUpdates) == updateKeys \subseteq allowedUpdates

allowedUserUpdates == {"name", "email", "password", "age"}

\* An update that ends the user's sessions when the password changes.
applyUserUpdates_DropSessions(user, u) ==
    [user EXCEPT
        !.name = IF "name" \in u.keys THEN u.name ELSE @,
        !.email = IF "email" \in u.keys THEN u.email ELSE @,
        !.password = IF "password" \in u.keys THEN hash(u.password) ELSE @,
        !.age = IF "age" \in u.keys THEN u.age ELSE @,
        !.tokens = IF "password" \in u.keys THEN <<>> ELSE @]

\* An update that writes the password as it was supplied.
applyUserUpdates_PlainPassword(user, u) ==
    [user EXCEPT
        !.name = IF "name" \in u.keys THEN u.name ELSE @,
        !.email = IF "email" \in u.keys THEN u.email ELSE @,
        !.password = IF "password" \in u.keys
                     THEN [hashed |-> FALSE, of |-> u.password] ELSE @,
        !.age = IF "age" \in u.keys THEN u.age ELSE @]

\* The document after findByIdAndUpdate(id, validUpdates): only the keys of
\* validUpdates are written, the password as hashed by updateUser.
applyUserUpdates(user, u) ==
    [user EXCEPT
        !.name = IF "name" \in u.keys THEN u.name ELSE @,
        !.email = IF "email" \in u.keys THEN u.email ELSE @,
        !.password = IF "password" \in u.keys THEN hash(u.password) ELSE @,
        !.age = IF "age" \in u.keys THEN u.age ELSE @]

\* UserService.updateUser
updateUser(r, u) ==
    LET id == req[r].user._id
        token == req[r].token
        emailTaken == /\ "email" \in u.keys
                      /\ \E o \in Ids \ {id} :
                            users[o].exists /\ users[o].email = u.email
    IN  /\ req[r].pc = "authed"
        /\ req' = [req EXCEPT ![r] = IdleReq]
        /\ \/ /\ u.keys = {}
              /\ last' = Resp("updateUser", r, id, OK, token, None, NoTask, 0, 0)
              /\ users' = users
           \/ /\ u.keys # {}
              /\ ~isValidOperation(u.keys, allowedUserUpdates)
              /\ last' = Resp("updateUser", r, id, ValidationError, token, None,
                              NoTask, 0, 0)
              /\ users' = users
           \/ /\ u.keys # {}
              /\ isValidOperation(u.keys, allowedUserUpdates)
              /\ "email" \in u.keys /\ u.email = InvalidEmail
              /\ last' = Resp("updateUser", r, id, ValidationError, token, None,
                              NoTask, 1, 0)
              /\ users' = users
           \/ /\ u.keys # {}
              /\ isValidOperation(u.keys, allowedUserUpdates)
              /\ ~("email" \in u.keys /\ u.email = InvalidEmail)
              /\ (~users[id].exists \/ emailTaken)
              /\ last' = Resp("updateUser", r, id, GenericError, token, None,
                              NoTask, 1, 0)
              /\ users' = users
           \/ /\ u.keys # {}
              /\ isValidOperation(u.keys, allowedUserUpdates)
              /\ ~("email" \in u.keys /\ u.email = InvalidEmail)
              /\ users[id].exists /\ ~emailTaken
              /\ users' = [users EXCEPT ![id] = applyUserUpdates(@, u)]
              /\ last' = Resp("updateUser", r, id, OK, token, None, NoTask, 1, 0)
        /\ UNCHANGED <<tasks, clock, creator>>

\* UserRepository.updateAvatarById
updateAvatarById(us, id, newAvatarPaths) ==
    [us EXCEPT ![id].avatarPaths = newAvatarPaths]

\* UserService.uploadUserAvatar: without a buffer the paths are set to the
\* defaults, with one the image is processed and uploaded and the paths are
\* set to its keys.  updateById calls toJSON() on what findByIdAndUpdate
\* found, a TypeError when the document is gone.
uploadUserAvatar(r, avatarBuffer) ==
    LET id == req[r].user._id
        token == req[r].token
        avatarPaths == IF avatarBuffer THEN UploadedAvatarPaths
                       ELSE getDefaultAvatarPaths
    IN  /\ req[r].pc = "authed"
        /\ req' = [req EXCEPT ![r] = IdleReq]
        /\ IF users[id].exists
           THEN /\ users' = updateAvatarById(users, id, avatarPaths)
                /\ last' = Resp("uploadUserAvatar", r, id, OK, token, None,
                                NoTask, 1, 0)
           ELSE /\ users' = users
                /\ last' = Resp("uploadUserAvatar", r, id, GenericError, token,
                                None, NoTask, 1, 0)
        /\ UNCHANGED <<tasks, clock, creator>>

\* UserService.deleteUserAvatar: the avatar paths it tests are those of
\* this.context.user; unless they are 'no-profile' or the default paths, the
\* three objects are deleted from cloud storage and the stored paths are set
\* to the defaults.
deleteUserAvatar(r) ==
    LET id == req[r].user._id
        token == req[r].token
        avatarPaths == req[r].user.avatarPaths
        defaultAvatarPaths == getDefaultAvatarPaths
    IN  /\ req[r].pc = "authed"
        /\ req' = [req EXCEPT ![r] = IdleReq]
        /\ IF avatarPaths = NoProfile \/ avatarPaths = defaultAvatarPaths
           THEN /\ users' = users
                /\ last' = Resp("deleteUserAvatar", r, id, OK, token, None,
                                NoTask, 0, 0)
           ELSE IF users[id].exists
           THEN /\ users' = updateAvatarById(users, id, defaultAvatarPaths)
                /\ last' = [Resp("deleteUserAvatar", r, id, OK, token, None,
                                 NoTask, 1, 0) EXCEPT !.blobDeletes = 3]
           ELSE /\ users' = users
                /\ last' = [Resp("deleteUserAvatar", r, id, GenericError, token,
                                 None, NoTask, 1, 0) EXCEPT !.blobDeletes = 3]
        /\ UNCHANGED <<tasks, clock, creator>>

\* A deletion that also empties the context of every other request of the
\* deleted user.
deleteUser_ClearsContexts(r) ==
    LET id == req[r].user._id
        token == req[r].token
    IN  /\ req[r].pc = "authed"
        /\ req' = [q \in Reqs |->
                     IF req[q].user._id = id THEN IdleReq ELSE req[q]]
        /\ IF users[id].exists
           THEN /\ users' = deleteById(users, id)
                /\ last' = Resp("deleteUser", r, id, OK, token, None, NoTask, 2, 0)
           ELSE /\ users' = users
                /\ last' = Resp("deleteUser", r, id, ResourceNotFoundError, token,
                                None, NoTask, 1, 0)
        /\ UNCHANGED <<tasks, clock, creator>>

\* UserService.deleteUser (UserRepository.deleteById)
deleteUser(r) ==
    LET id == req[r].user._id
        token == req[r].token
    IN  /\ req[r].pc = "authed"
        /\ req' = [req EXCEPT ![r] = IdleReq]
        /\ IF users[id].exists
           THEN /\ users' = deleteById(users, id)
                /\ last' = Resp("deleteUser", r, id, OK, token, None, NoTask, 2, 0)
           ELSE /\ users' = users
                /\ last' = Resp("deleteUser", r, id, ResourceNotFoundError, token,
                                None, NoTask, 1, 0)
        /\ UNCHANGED <<tasks, clock, creator>>

(* ---------------------------- TaskRepository --------------------------- *)

\* A find by _id alone, without the owner condition.
readByIdWithQuery_AnyOwner(ts, id, owner) ==
    IF ts[id].exists THEN <<id>> ELSE <<>>

\* TaskRepository.readByIdWithQuery(id, { owner }): Task.find({ _id, owner })
readByIdWithQuery(ts, id, owner) ==
    IF ts[id].exists /\ ts[id].owner = owner THEN <<id>> ELSE <<>>

\* The sort object of the options: none, or one key with a direction.
NoSort == [key |-> None, dir |-> 1]
SortObjects == {NoSort} \cup [key : {"description"}, dir : {1, -1}]

\* The collation order of the descriptions.
descriptionRank(description) ==
    CASE description = "d1" -> 1 [] description = "d2" -> 2 [] OTHER -> 0

\* The documents Task.find(query) matches: those of the owner, and with the
\* completed value when the query has one.
matchTasks(ts, owner, match) ==
    {k \in TaskIds : /\ ts[k].exists
                     /\ ts[k].owner = owner
                     /\ match.hasCompleted => ts[k].completed = match.completed}

\* The orders a cursor over the documents of S can have under a sort object:
\* every arrangement that respects the sort key (documents with equal keys,
\* and all documents when there is no key, come in an order the store picks).
orderings(ts, S, sort) ==
    {seq \in [1..Cardinality(S) -> S] :
        /\ \A i, j \in 1..Cardinality(S) : i # j => seq[i] # seq[j]
        /\ sort.key = "description" =>
              \A i, j \in 1..Cardinality(S) :
                 i < j => sort.dir * descriptionRank(ts[seq[i]].description)
                            <= sort.dir * descriptionRank(ts[seq[j]].description)}

\* What parseInt gives for an absent value.
NaN == -1

\* skip and limit of a cursor; one that is NaN is not applied.
page(seq, skip, limit) ==
    LET first == IF skip = NaN THEN 1 ELSE skip + 1
        rest == SubSeq(seq, first, Len(seq))
    IN  IF limit = NaN \/ limit >= Len(rest) THEN rest
        ELSE SubSeq(rest, 1, limit)

\* A query that pages the documents of all owners and then keeps the
\* owner's.
readByQuery_PageBeforeOwner(ts, owner, match, options) ==
    LET all == {k \in TaskIds :
                   /\ ts[k].exists
                   /\ match.hasCompleted => ts[k].completed = match.completed}
    IN  {SelectSeq(page(seq, options.skip, options.limit),
                   LAMBDA k : ts[k].owner = owner) :
            seq \in orderings(ts, all, options.sort)}

\* TaskRepository.readByQuery({ owner, ...match }, options):
\* Task.find(query, null, options), the results it can resolve with.
readByQuery(ts, owner, match, options) ==
    {page(seq, options.skip, options.limit) :
        seq \in orderings(ts, matchTasks(ts, owner, match), options.sort)}

\* The document after findOneAndUpdate(..., updates)
applyTaskUpdates(task, u) ==
    [task EXCEPT
        !.description = IF "description" \in u.keys THEN u.description ELSE @,
        !.completed = IF "completed" \in u.keys THEN u.completed ELSE @]

\* TaskRepository.updateByIdWithQuery(id, { owner }, updates): the collection
\* afterwards; the document is matched by _id and owner.
updateByIdWithQuery(ts, id, owner, u) ==
    IF ts[id].exists /\ ts[id].owner = owner
    THEN [ts EXCEPT ![id] = applyTaskUpdates(@, u)]
    ELSE ts

\* A delete by _id alone, without the owner condition.
deleteByIdWithQuery_AnyOwner(ts, id, owner) ==
    IF ts[id].exists THEN [ts EXCEPT ![id] = NoTask] ELSE ts

\* TaskRepository.deleteByIdWithQuery(id, { owner }): the collection
\* afterwards; the document is matched by _id and owner.
deleteByIdWithQuery(ts, id, owner) ==
    IF ts[id].exists /\ ts[id].owner = owner
    THEN [ts EXCEPT ![id] = NoTask]
    ELSE ts

(* ------------------------------ TaskService ---------------------------- *)

\* req.body.task of POST /tasks: absent, or an object that may lack the
\* description and may carry an owner of the client's choosing.
TaskInputs ==
    {[present |-> FALSE, description |-> None, completed |-> FALSE,
      owner |-> None]}
    \cup [present : {TRUE}, description : Descriptions \cup {None},
          completed : BOOLEAN, owner : Ids \cup {None}]

\* { owner: this.context.user._id, ...taskData }: the client's owner wins.
withOwner_ClientWins(taskData, contextUserId) ==
    [exists |-> TRUE, description |-> taskData.description,
     completed |-> taskData.completed,
     owner |-> IF taskData.owner # None THEN taskData.owner
               ELSE contextUserId]

\* { ...taskData, owner: this.context.user._id }
withOwner(taskData, contextUserId) ==
    [exists |-> TRUE, description |-> taskData.description,
     completed |-> taskData.completed, owner |-> contextUserId]

\* TaskService.createNewTask
createNewTask(r, taskData) ==
    LET owner == req[r].user._id
        token == req[r].token
        id == CHOOSE k \in TaskIds : ~tasks[k].exists
    IN  /\ req[r].pc = "authed"
        /\ req' = [req EXCEPT ![r] = IdleReq]
        /\ \/ /\ ~taskData.present
              /\ last' = Resp("createTask", r, owner, ValidationError, token, None,
                              NoTask, 0, 0)
              /\ UNCHANGED <<tasks, creator>>
           \/ /\ taskData.present
              /\ taskData.description = None
              /\ last' = Resp("createTask", r, owner, ValidationError, token, None,
                              NoTask, 1, 0)
              /\ UNCHANGED <<tasks, creator>>
           \/ /\ taskData.present
              /\ taskData.description # None
              /\ \E k \in TaskIds : ~tasks[k].exists
              /\ tasks' = [tasks EXCEPT ![id] = withOwner(taskData, owner)]
              /\ creator' = [creator EXCEPT ![id] = owner]
              /\ last' = [Resp("createTask", r, owner, OK, token, id,
                               withOwner(taskData, owner), 1, 0)
                              EXCEPT !.sent = taskData.owner]
        /\ UNCHANGED <<users, clock>>

\* req.query of GET /tasks: completed is absent or a string, sortBy is absent
\* or key_direction, limit and skip are absent or digits.
TaskQueries ==
    [completed : {None, "true", "false"},
     sortBy : {None, "description_asc", "description_desc"},
     limit : {None, "1"}, skip : {None, "1"}]

\* parseInt(value, 10) of an absent value or of the digits the model has.
parseInt(value) ==
    CASE value = "1" -> 1 [] value = "2" -> 2 [] OTHER -> NaN

\* The route's conversion of req.query into the query object, and the match
\* object the service builds from it: completed is matched when the query
\* string has it, as the boolean completed === 'true'.
queryOf(q) ==
    [hasCompleted |-> q.completed # None, completed |-> q.completed = "true"]

\* The route's conversion of req.query into the options object.

optionsOf(q) ==
    [limit |-> parseInt(q.limit), skip |-> parseInt(q.skip),
     sort |-> CASE q.sortBy = None -> NoSort
                [] q.sortBy = "description_desc" ->
                       [key |-> "description", dir |-> -1]
                [] OTHER -> [key |-> "description", dir |-> 1]]

\* TaskService.retrieveTasksByQueryForUser, called by GET /tasks
retrieveTasksByQueryForUser(r, q) ==
    LET owner == req[r].user._id
        token == req[r].token
    IN  /\ req[r].pc = "authed"
        /\ req' = [req EXCEPT ![r] = IdleReq]
        /\ \E found \in readByQuery(tasks, owner, queryOf(q), optionsOf(q)) :
              last' = [Resp("retrieveTasks", r, owner, OK, token, None, NoTask,
                            1, 0) EXCEPT !.list = found]
        /\ UNCHANGED <<users, tasks, clock, creator>>

\* TaskService.retrieveTaskById
retrieveTaskById(r, id) ==
    LET owner == req[r].user._id
        token == req[r].token
        found == readByIdWithQuery(tasks, id, owner)
    IN  /\ req[r].pc = "authed"
        /\ req' = [req EXCEPT ![r] = IdleReq]
        /\ last' = IF Len(found) = 0
                   THEN Resp("retrieveTask", r, owner, ResourceNotFoundError, token,
                             id, NoTask, 1, 0)
                   ELSE Resp("retrieveTask", r, owner, OK, token, id,
                             tasks[found[1]], 1, 0)
        /\ UNCHANGED <<users, tasks, clock, creator>>

\* The updates object of PATCH /tasks/:id.
TaskUpdateKeys == {"description", "completed", "owner", "_id"}

TaskUpdateInputs ==
    {u \in [keys : SUBSET TaskUpdateKeys, description : Descriptions,
            completed : BOOLEAN] :
        /\ "description" \notin u.keys => u.description = "d1"
        /\ "completed" \notin u.keys => u.completed = FALSE}

allowedTaskUpdates == {"description", "completed"}

\* An update without the check for an empty updates object: no key fails
\* the allow-list test, and the store is asked to update with nothing.
updateTaskById_NoEmptyCheck(r, id, u) ==
    LET owner == req[r].user._id
        token == req[r].token
        updated == updateByIdWithQuery(tasks, id, owner, u)
    IN  /\ req[r].pc = "authed"
        /\ req' = [req EXCEPT ![r] = IdleReq]
        /\ \/ /\ ~isValidOperation(u.keys, allowedTaskUpdates)
              /\ last' = Resp("updateTask", r, owner, ValidationError, token, id,
                              NoTask, 0, 0)
              /\ tasks' = tasks
           \/ /\ isValidOperation(u.keys, allowedTaskUpdates)
              /\ readByIdWithQuery(tasks, id, owner) = <<>>
              /\ tasks' = updated
              /\ last' = Resp("updateTask", r, owner, ResourceNotFoundError, token,
                              id, NoTask, 1, 0)
           \/ /\ isValidOperation(u.keys, allowedTaskUpdates)
              /\ readByIdWithQuery(tasks, id, owner) # <<>>
              /\ tasks' = updated
              /\ last' = Resp("updateTask", r, owner, OK, token, id, updated[id],
                              1, 0)
        /\ UNCHANGED <<users, clock, creator>>

\* TaskService.updateTaskById
updateTaskById(r, id, u) ==
    LET owner == req[r].user._id
        token == req[r].token
        updated == updateByIdWithQuery(tasks, id, owner, u)
    IN  /\ req[r].pc = "authed"
        /\ req' = [req EXCEPT ![r] = IdleReq]
        /\ \/ /\ u.keys = {}
              /\ last' = Resp("updateTask", r, owner, ValidationError, token, id,
                              NoTask, 0, 0)
              /\ tasks' = tasks
           \/ /\ u.keys # {}
              /\ ~isValidOperation(u.keys, allowedTaskUpdates)
              /\ last' = Resp("updateTask", r, owner, ValidationError, token, id,
                              NoTask, 0, 0)
              /\ tasks' = tasks
           \/ /\ u.keys # {}
              /\ isValidOperation(u.keys, allowedTaskUpdates)
              /\ readByIdWithQuery(tasks, id, owner) = <<>>
              /\ tasks' = updated
              /\ last' = Resp("updateTask", r, owner, ResourceNotFoundError, token,
                              id, NoTask, 1, 0)
           \/ /\ u.keys # {}
              /\ isValidOperation(u.keys, allowedTaskUpdates)
              /\ readByIdWithQuery(tasks, id, owner) # <<>>
              /\ tasks' = updated
              /\ last' = Resp("updateTask", r, owner, OK, token, id, updated[id],
                              1, 0)
        /\ UNCHANGED <<users, clock, creator>>

\* TaskService.deleteTaskById
deleteTaskById(r, id) ==
    LET owner == req[r].user._id
        token == req[r].token
    IN  /\ req[r].pc = "authed"
        /\ req' = [req EXCEPT ![r] = IdleReq]
        /\ tasks' = deleteByIdWithQuery(tasks, id, owner)
        /\ last' = IF readByIdWithQuery(tasks, id, owner) = <<>>
                   THEN Resp("deleteTask", r, owner, ResourceNotFoundError, token,
                             id, NoTask, 1, 0)
                   ELSE Resp("deleteTask", r, owner, OK, token, id, NoTask, 2, 0)
        /\ UNCHANGED <<users, clock, creator>>

(* ------------------------------ transitions ---------------------------- *)

\* The request bodies the transitions draw from.
SessionSignUps ==
    {d \in SignUpInputs :
        d.name = "n1" /\ d.password \in {"p1", None} /\ d.age = 0}

\* Profile updates: every combination of at most two keys that has a key
\* outside the allow-list, and of the accepted ones those that change the
\* name or the e-mail address.
ProfileUpdates ==
    {v : v \in {u \in UserUpdateInputs :
        /\ "password" \in u.keys => u.password = "p2"
        /\ "age" \in u.keys => u.age = 1
        /\ isValidOperation(u.keys, allowedUserUpdates)
              => (u.keys \subseteq {"name", "email"} /\ Cardinality(u.keys) <= 1)
        /\ ~isValidOperation(u.keys, allowedUserUpdates)
              => (Cardinality(u.keys) <= 2 /\ u.name = "n1" /\ u.email = "e1")}}

TaskBodies ==
    {d \in TaskInputs : d.present => (d.completed = FALSE /\ d.owner # "u2")}

\* Task updates: every combination of keys that has a key outside the
\* allow-list, and every accepted update.
TaskUpdates ==
    {v : v \in {u \in TaskUpdateInputs :
        ~isValidOperation(u.keys, allowedTaskUpdates)
            => (u.description = "d1" /\ u.completed = FALSE
                /\ Cardinality(u.keys) <= 2)}}

\* Sessions: sign-up, login, logout and the authentication middleware.
Next ==
    \/ Tick
    \/ \E r \in Reqs, h \in Headers : verifyAuth(r, h)
    \/ \E d \in SessionSignUps : signUpNewUser(d)
    \/ \E e \in LoginEmails, p \in LoginPasswords : loginUser(e, p)
    \/ \E r \in Reqs : logoutUser(r)
    \/ \E r \in Reqs : logoutUserAll(r)

Spec == Init /\ [][Next]_vars

\* Owned resources: the task operations and the profile operations of
\* authenticated users, with one token per user.
TaskHeaders ==
    {h \in Headers : ~h.present \/ (h.scheme = "Bearer " /\ h.value.kind = "jwt")}

TaskSignUps ==
    {d \in SessionSignUps : d.password = None => d.email = "e1"}

TaskReqs == {1}

NextTasks ==
    \/ \E r \in TaskReqs, h \in TaskHeaders : verifyAuth(r, h)
    \/ \E d \in TaskSignUps : signUpNewUser(d)
    \/ \E r \in TaskReqs, u \in ProfileUpdates : updateUser(r, u)
    \/ \E r \in TaskReqs : deleteUser(r)
    \/ \E r \in TaskReqs, d \in TaskBodies : createNewTask(r, d)
    \/ \E r \in TaskReqs, k \in TaskIds : retrieveTaskById(r, k)
    \/ \E r \in TaskReqs, k \in TaskIds, u \in TaskUpdates :
            updateTaskById(r, k, u)
    \/ \E r \in TaskReqs, k \in TaskIds : deleteTaskById(r, k)

SpecTasks == Init /\ [][NextTasks]_vars

\* Issuance and revocation: sign-up, login, logout and the middleware with
\* one request in flight.
NextSessions ==
    \/ Tick
    \/ \E r \in TaskReqs, h \in Headers : verifyAuth(r, h)
    \/ \E d \in SessionSignUps : signUpNewUser(d)
    \/ \E e \in LoginEmails, p \in LoginPasswords : loginUser(e, p)
    \/ \E r \in TaskReqs : logoutUser(r)
    \/ \E r \in TaskReqs : logoutUserAll(r)

SpecSessions == Init /\ [][NextSessions]_vars

\* Credentials: sign-up, login and profile updates that set the password.
ProfileSignUps ==
    {v : v \in {d \in SignUpInputs : d.name = "n1" /\ d.age # 1}}

PasswordUpdates ==
    {v : v \in {u \in UserUpdateInputs :
                  /\ u.keys \in {{}, {"password"}, {"password", "name"},
                                  {"password", "_id"}}
                  /\ "name" \in u.keys => u.name = "n2"}}

NextProfile ==
    \/ \E r \in TaskReqs, h \in TaskHeaders : verifyAuth(r, h)
    \/ \E d \in ProfileSignUps : signUpNewUser(d)
    \/ \E e \in LoginEmails, p \in LoginPasswords : loginUser(e, p)
    \/ \E r \in TaskReqs, u \in PasswordUpdates : updateUser(r, u)

SpecProfile == Init /\ [][NextProfile]_vars

\* Concurrent requests: two requests in flight, each between its middleware
\* and its handler, and logins between their read and their write.
ConcurrentHeaders ==
    {h \in Headers : h.present /\ h.scheme = "Bearer " /\ h.value.kind = "jwt"}

ConcurrentSignUps ==
    {d \in TaskSignUps : d.email = "e1"}

ConcurrentUpdates ==
    {v : v \in {u \in ProfileUpdates : u.keys = {"name"} /\ u.name = "n2"}}

ConcurrentBodies ==
    {d \in TaskBodies : d.present /\ d.description = "d1" /\ d.owner = None}

NextConcurrent ==
    \/ Tick
    \/ \E r \in Reqs, h \in ConcurrentHeaders : verifyAuth(r, h)
    \/ \E d \in ConcurrentSignUps : signUpNewUser(d)
    \/ \E r \in Reqs, e \in {"e1", None} : loginUserRead(r, e, "p1")
    \/ \E r \in Reqs : loginUserWrite(r)
    \/ \E r \in Reqs : logoutUser(r)
    \/ \E r \in Reqs : logoutUserAll(r)
    \/ \E r \in Reqs, u \in ConcurrentUpdates : updateUser(r, u)
    \/ \E r \in Reqs : deleteUser(r)
    \/ \E r \in Reqs, d \in ConcurrentBodies : createNewTask(r, d)

SpecConcurrent == Init /\ [][NextConcurrent]_vars

\* Task queries: two users create tasks, complete them and list their own.
QueryUpdates ==
    {v : v \in {u \in TaskUpdateInputs :
                  u.keys = {"completed"} /\ u.description = "d1"}}

NextQueries ==
    \/ \E r \in TaskReqs, h \in TaskHeaders : verifyAuth(r, h)
    \/ \E d \in TaskSignUps : signUpNewUser(d)
    \/ \E r \in TaskReqs, d \in TaskBodies : createNewTask(r, d)
    \/ \E r \in TaskReqs, k \in TaskIds, u \in QueryUpdates :
            updateTaskById(r, k, u)
    \/ \E r \in TaskReqs, q \in TaskQueries : retrieveTasksByQueryForUser(r, q)

SpecQueries == Init /\ [][NextQueries]_vars

\* Avatars: users sign up, upload an image or none, and delete their avatar.
NextAvatars ==
    \/ \E r \in TaskReqs, h \in TaskHeaders : verifyAuth(r, h)
    \/ \E d \in TaskSignUps : signUpNewUser(d)
    \/ \E r \in TaskReqs, avatarBuffer \in BOOLEAN :
            uploadUserAvatar(r, avatarBuffer)
    \/ \E r \in TaskReqs : deleteUserAvatar(r)
    \/ \E r \in TaskReqs : deleteUser(r)

SpecAvatars == Init /\ [][NextAvatars]_vars

(* ------------------------------- claims -------------------------------- *)

\* The token is signed for an existing user whose tokens array holds it.
TokenAuthenticates(us, t) ==
    /\ t.kind = "jwt"
    /\ us[t.sub].exists
    /\ \E i \in 1..Len(us[t.sub].tokens) : us[t.sub].tokens[i] = t

\* C1: verifySession(token) succeeds and attaches principal P to the request
\* context if and only if the token decodes to P's identifier, P exists and
\* the exact token is an entry of P's session list; otherwise it fails and
\* no principal is attached.
C1_VerifySessionIffListed ==
    last.op = "verifyAuth" =>
        /\ (last.outcome = OK) <=> TokenAuthenticates(users, last.token)
        /\ last.outcome = OK =>
              /\ req[last.req].pc = "authed"
              /\ req[last.req].token = last.token
              /\ req[last.req].user._id = last.token.sub
        /\ last.outcome # OK => req[last.req] = IdleReq

C1_Witness ==
    /\ last.op = "verifyAuth"
    /\ last.outcome = OK
    /\ Len(users[last.user].tokens) = 2
    /\ \E o \in Ids \ {last.user} : users[o].exists

\* C2: after a logout performed with token t of principal P, verifySession(t)
\* fails with AuthenticationError, and every other token in P's session list
\* still passes verifySession.
C2_LogoutRevokesOnlyItsToken ==
    [][\A r \in Reqs :
          (logoutUser(r) /\ last'.outcome = OK) =>
              /\ verifyAuthOutcome(users', req[r].token) = AuthenticationError
              /\ \A t \in Range(users[req[r].user._id].tokens) :
                    t # req[r].token => TokenAuthenticates(users', t)]_vars

C2_Witness ==
    /\ last.op = "logout"
    /\ last.outcome = OK
    /\ Len(users[last.user].tokens) = 1
    /\ users[last.user].tokens[1] # last.token

\* C3: after logoutAll by principal P, P's session list is empty, every token
\* issued for P fails verifySession, and the session lists of all other
\* principals are unchanged.
C3_LogoutAllRevokesEverything ==
    [][\A r \in Reqs :
          (logoutUserAll(r) /\ last'.outcome = OK) =>
              /\ users'[req[r].user._id].tokens = <<>>
              /\ \A t \in SignedTokens :
                    t.sub = req[r].user._id => ~TokenAuthenticates(users', t)
              /\ \A o \in Ids \ {req[r].user._id} :
                    users'[o].tokens = users[o].tokens]_vars

C3_Witness ==
    /\ last.op = "logoutAll"
    /\ last.outcome = OK
    /\ users[last.user].tokens = <<>>
    /\ \E o \in Ids \ {last.user} : Len(users[o].tokens) = 2

\* C6: after two token issuances for a principal and one logout with one of
\* the two tokens, the session list holds exactly the other token and that
\* token still passes verifySession, whatever the timing of the issuances.
C6_TwoIssuedOneRevoked ==
    [][\A r \in Reqs :
          (/\ logoutUser(r)
           /\ last'.outcome = OK
           /\ Len(users[req[r].user._id].tokens) = 2
           /\ req[r].token \in Range(users[req[r].user._id].tokens)) =>
              /\ Len(users'[req[r].user._id].tokens) = 1
              /\ TokenAuthenticates(users', users'[req[r].user._id].tokens[1])
              /\ verifyAuthOutcome(users', req[r].token) # OK]_vars

\* C7: every failure of verifySession is an AuthenticationError with the same
\* caller-visible outcome, whether the token is malformed or badly signed,
\* revoked, or names no existing principal.
C7_UniformAuthenticationFailure ==
    (last.op = "verifyAuth" /\ last.outcome # OK) =>
        /\ last.outcome = AuthenticationError
        /\ handleErrors(last.outcome) = 401

\* C8: a request without an Authorization header yields the empty token, and
\* verifySession with the empty token fails with AuthenticationError without
\* invoking the token decoder.
C8_EmptyTokenFailsBeforeDecode ==
    [][\A r \in Reqs, h \in Headers :
          (verifyAuth(r, h) /\ ~h.present) =>
              /\ last'.token = EmptyToken
              /\ last'.outcome = AuthenticationError
              /\ last'.decoderCalls = 0]_vars

\* C11: after a successful sign-up the new user's session list holds exactly
\* one entry, the token returned to the caller; the token decodes to the new
\* user's identifier and passes verifySession, and a token that authenticates
\* keeps doing so until a logout with it or a logoutAll of its user.
C11_SignUpIssuesOneSession ==
    [][/\ last'.op = "signUp" =>
             \A d \in SessionSignUps :
                 (signUpNewUser(d) /\ last'.outcome = OK) =>
                     /\ ~users[last'.user].exists
                     /\ users'[last'.user].tokens = <<last'.token>>
                     /\ ~verifyAuthToken(last'.token).threw
                     /\ verifyAuthToken(last'.token)._id = last'.user
                     /\ verifyAuthOutcome(users', last'.token) = OK
       /\ users' # users =>
             \A t \in SignedTokens :
                 (TokenAuthenticates(users, t) /\ ~TokenAuthenticates(users', t))
                     => \/ last'.op = "logout" /\ last'.token = t
                        \/ last'.op = "logoutAll" /\ last'.user = t.sub]_vars

C11_Witness ==
    /\ last.op = "signUp"
    /\ last.outcome = OK
    /\ last.user = "u2"
    /\ users["u2"].tokens = <<last.token>>
    /\ Len(users["u1"].tokens) = 2

C13_LoginFailuresAlike ==
    [][last'.op = "login" =>
          \A e \in ValidEmails, p \in Passwords :
              (/\ loginUser(e, p)
               /\ \/ readByEmail(users, e) = None
                  \/ users[readByEmail(users, e)].password # hash(p)) =>
                  /\ last' = Resp("login", 0, None, AuthenticationError,
                                  EmptyToken, None, NoTask, 1, 0)
                  /\ handleErrors(last'.outcome) = 401
                  /\ users' = users]_vars

C13_Witness ==
    /\ last.op = "login"
    /\ last.outcome = AuthenticationError
    /\ \A u \in Ids : users[u].exists /\ users[u].tokens # <<>>

\* C15: in every reachable state no token string occurs in the session lists
\* of two different principals.
C15_TokensNotShared ==
    \A u, v \in Ids :
        u # v => Range(users[u].tokens) \cap Range(users[v].tokens) = {}

C15_Witness ==
    /\ \A u \in Ids : Len(users[u].tokens) = 2
    /\ \E i, j \in 1..2 : users["u1"].tokens[i].iat = users["u2"].tokens[j].iat

\* C4: retrieveTaskById(id) as principal P returns task T exactly when a task
\* with that id exists and its owner is P; for a task of another principal
\* the response is the ResourceNotFound response of an id that does not
\* exist.
C4_RetrieveOnlyOwnTask ==
    last.op = "retrieveTask" =>
        IF tasks[last.task].exists /\ tasks[last.task].owner = last.user
        THEN /\ last.outcome = OK
             /\ last.body = tasks[last.task]
        ELSE /\ last.outcome = ResourceNotFoundError
             /\ last.body = NoTask
             /\ last.dbCalls = 1

C4_Witness ==
    /\ last.op = "retrieveTask"
    /\ last.outcome = ResourceNotFoundError
    /\ tasks[last.task].exists
    /\ tasks[last.task].owner # last.user
    /\ \E k \in TaskIds : tasks[k].exists /\ tasks[k].owner = last.user

C9_OwnerIsCreator ==
    \A k \in TaskIds :
        tasks[k].exists => (tasks[k].owner = creator[k] /\ creator[k] \in Ids)

C9_Witness ==
    /\ last.op = "createTask"
    /\ last.outcome = OK
    /\ last.sent = "u1"
    /\ last.user = "u2"
    /\ tasks[last.task].owner = "u2"
    /\ \E k \in TaskIds \ {last.task} :
          tasks[k].exists /\ tasks[k].owner = "u1"

C16_NoSensitiveFieldReturned ==
    last.returns \cap {"password", "tokens"} = {}

\* C17: the password written to the store by a sign-up, and by a profile
\* update that has a password, is the hash of the supplied plaintext; no
\* stored password is a plaintext.
C17_PasswordStoredHashed ==
    [][/\ last'.op = "signUp" =>
             \A d \in ProfileSignUps :
                 (signUpNewUser(d) /\ last'.outcome = OK) =>
                     users'[last'.user].password = hash(d.password)
       /\ last'.op = "updateUser" =>
             \A r \in TaskReqs, u \in PasswordUpdates :
                 (/\ updateUser(r, u)
                  /\ last'.outcome = OK
                  /\ "password" \in u.keys) =>
                     users'[last'.user].password = hash(u.password)
       /\ \A i \in Ids : users'[i].exists => users'[i].password.hashed]_vars

C17_Witness ==
    /\ last.op = "updateUser"
    /\ last.outcome = OK
    /\ last.dbCalls = 1
    /\ users[last.user].password = hash("p2")
    /\ \E o \in Ids \ {last.user} : users[o].password = hash("p1")

\* C14: after deleteUser by principal P no record with P's identifier exists,
\* its session list is gone with it, and verifySession fails with
\* AuthenticationError for every token issued to P, those of P's other
\* devices included.
C14_DeleteUserEndsAllSessions ==
    [][\A r \in Reqs :
          (deleteUser(r) /\ last'.outcome = OK) =>
              /\ users' = [users EXCEPT ![req[r].user._id] = NoUser]
              /\ \A t \in SignedTokens :
                    t.sub = req[r].user._id =>
                        verifyAuthOutcome(users', t) = AuthenticationError]_vars

C14_Witness ==
    /\ last.op = "deleteUser"
    /\ last.outcome = OK
    /\ \E q \in Reqs :
          /\ req[q].pc = "authed"
          /\ req[q].user._id = last.user
          /\ req[q].token # last.token

\* C18: updateTokensById, removeTokenById and removeAllTokensById each fail
\* with a NotFound error and leave the store unchanged when no principal
\* exists for the identifier, as when the principal was deleted by a
\* concurrent request after the caller authenticated.
C18_SessionWriteOnMissingUserIsNotFound ==
    [][\A r \in Reqs :
          (/\ req[r].pc \in {"authed", "login"}
           /\ ~users[req[r].user._id].exists
           /\ (loginUserWrite(r) \/ logoutUser(r) \/ logoutUserAll(r))) =>
              /\ last'.outcome = ResourceNotFoundError
              /\ users' = users]_vars

\* C19: once verifySession has succeeded for a request, the principal in the
\* request's context is not replaced or read again: the context stays as it
\* is while other requests revoke the token, update the principal or delete
\* it, and the request's own operation runs with the identifier and token
\* loaded at authentication.
C19_ContextFixedForRequest ==
    [][\A r \in Reqs :
          req[r].pc = "authed" =>
              \/ req'[r] = req[r]
              \/ /\ req'[r] = IdleReq
                 /\ last'.req = r
                 /\ last'.user = req[r].user._id
                 /\ last'.token = req[r].token]_vars

C19_Witness ==
    /\ last.op = "createTask"
    /\ last.outcome = OK
    /\ ~users[last.user].exists
    /\ tasks[last.task].owner = last.user

C21_RejectedSignUpCreatesNothing ==
    [][last'.op = "signUp" =>
         \A d \in ProfileSignUps :
            (/\ signUpNewUser(d)
             /\ \/ d.password = None
                \/ d.email = InvalidEmail
                \/ d.age < 0
                \/ \E id \in Ids : users[id].exists /\ users[id].email = d.email)
            => /\ last'.outcome = ValidationError
               /\ handleErrors(last'.outcome) = 400
               /\ users' = users
               /\ last'.user = None
               /\ last'.token = EmptyToken]_vars

\* Reached: a sign-up was rejected while a user is registered, and no second
\* document exists.
C21_Witness ==
    /\ last.op = "signUp"
    /\ last.outcome = ValidationError
    /\ last.dbCalls = 1
    /\ users["u1"].exists
    /\ ~users["u2"].exists


\* C22: authentication is decided before validation: a request to a
\* protected operation whose token fails verifySession is answered with
\* AuthenticationError whatever its body, the handler does not run (the
\* request gets no context to run in) and no user or task is changed.
C22_AuthenticationBeforeValidation ==
    [][last'.op = "verifyAuth" =>
         \A r \in TaskReqs, h \in TaskHeaders :
            (/\ verifyAuth(r, h)
             /\ verifyAuthOutcome(users, stripBearerToken(h)) # OK)
            => /\ last'.outcome = AuthenticationError
               /\ handleErrors(last'.outcome) = 401
               /\ req'[r] = IdleReq
               /\ users' = users
               /\ tasks' = tasks]_vars

\* C23: deleteUser cascades to the user's tasks: after a successful
\* deleteUser by a user, no task whose owner is that user remains.
C23_DeleteUserCascadesToTasks ==
    (last.op = "deleteUser" /\ last.outcome = OK) =>
        \A k \in TaskIds : ~(tasks[k].exists /\ tasks[k].owner = last.user)

\* C24: when logoutAll and a login of the same principal run concurrently,
\* the stored list ends empty (the login's push came first) or holding only
\* the token issued by that login (the push came last), and no token that
\* was in the list before logoutAll started is in it afterwards: not the one
\* the logoutAll request had authenticated with.
C24_LogoutAllLoginRace ==
    [][\A r \in Reqs :
          /\ (/\ logoutUserAll(r)
              /\ last'.outcome = OK
              /\ \E q \in Reqs : /\ req[q].pc = "login"
                                 /\ req[q].user._id = req[r].user._id)
             => users'[req[r].user._id].tokens = <<>>
          /\ (/\ loginUserWrite(r)
              /\ last'.outcome = OK
              /\ last.op = "logoutAll"
              /\ last.outcome = OK
              /\ last.user = req[r].user._id)
             => /\ users'[last.user].tokens = <<last'.token>>
                /\ last.token \notin Range(users'[last.user].tokens)]_vars

C26_UpdateKeepsSessions ==
    [][last'.op = "updateUser" =>
         \A r \in TaskReqs, u \in PasswordUpdates :
            (updateUser(r, u) /\ last'.outcome = OK) =>
                /\ \A id \in Ids : users'[id].tokens = users[id].tokens
                /\ \A t \in SignedTokens :
                      TokenAuthenticates(users, t) => TokenAuthenticates(users', t)
                /\ verifyAuthOutcome(users', req[r].token) = OK]_vars

\* Reached: a user changed the password and the token the request came with
\* is still in the list.
C26_Witness ==
    /\ last.op = "updateUser"
    /\ last.outcome = OK
    /\ last.dbCalls = 1
    /\ users[last.user].password = hash("p2")
    /\ last.token \in Range(users[last.user].tokens)
    /\ TokenAuthenticates(users, last.token)

\* C27: retrieveTasksByQueryForUser called as a principal returns only tasks
\* whose owner is that principal, with the completed value of the filter when
\* one is given, each at most once; limit, skip and sort act on that
\* owner-filtered set, so the page has as many of the principal's tasks as the
\* set has after the skip, up to the limit, whatever other principals own,
\* and without limit and skip it is exactly the set.
C27_QueryReturnsOwnTasks ==
    [][last'.op = "retrieveTasks" =>
         \A r \in TaskReqs, q \in TaskQueries :
            retrieveTasksByQueryForUser(r, q) =>
                LET P == req[r].user._id
                    own == {k \in TaskIds :
                              /\ tasks[k].exists
                              /\ tasks[k].owner = P
                              /\ q.completed = "true" => tasks[k].completed
                              /\ q.completed = "false" => ~tasks[k].completed}
                    found == last'.list
                    skipped == IF q.skip = "1" THEN 1 ELSE 0
                    left == IF Cardinality(own) > skipped
                            THEN Cardinality(own) - skipped ELSE 0
                IN  /\ last'.outcome = OK
                    /\ Range(found) \subseteq own
                    /\ \A i, j \in DOMAIN found : i # j => found[i] # found[j]
                    /\ Len(found) = IF q.limit = "1" /\ left > 1 THEN 1 ELSE left
                    /\ q.sortBy = "description_asc" =>
                          \A i, j \in DOMAIN found :
                             (i < j) =>
                                ~(/\ tasks[found[i]].description = "d2"
                                  /\ tasks[found[j]].description = "d1")
                    /\ q.sortBy = "description_desc" =>
                          \A i, j \in DOMAIN found :
                             (i < j) =>
                                ~(/\ tasks[found[i]].description = "d1"
                                  /\ tasks[found[j]].description = "d2")
                    /\ tasks' = tasks]_vars

\* Reached: a query with limit 1 returned the principal's one task while
\* another principal owns a task too.
C27_Witness ==
    /\ last.op = "retrieveTasks"
    /\ Len(last.list) = 1
    /\ tasks[last.list[1]].owner = last.user
    /\ \E k \in TaskIds : tasks[k].exists /\ tasks[k].owner # last.user

\* C28: with an empty or absent updates object updateTaskById fails with
\* ValidationError without any store access and leaves the task unchanged,
\* whereas updateUser succeeds with the user of the request context and
\* writes nothing to the store.
C28_EmptyUpdates ==
    [][last'.op \in {"updateTask", "updateUser"} =>
         /\ \A r \in TaskReqs, k \in TaskIds, u \in TaskUpdates :
               (u.keys = {} /\ updateTaskById(r, k, u)) =>
                   /\ last'.outcome = ValidationError
                   /\ last'.dbCalls = 0
                   /\ tasks' = tasks
         /\ \A r \in TaskReqs, u \in ProfileUpdates :
               (u.keys = {} /\ updateUser(r, u)) =>
                   /\ last'.outcome = OK
                   /\ last'.dbCalls = 0
                   /\ last'.user = req[r].user._id
                   /\ last'.returns = DOMAIN req[r].user
                   /\ users' = users]_vars

\* Reached: an update of the profile with no keys was answered with the
\* context's user and without a store call, by a user who owns a task.
C28_Witness ==
    /\ last.op = "updateUser"
    /\ last.outcome = OK
    /\ last.dbCalls = 0
    /\ users[last.user].exists
    /\ \E k \in TaskIds : tasks[k].exists /\ tasks[k].owner = last.user

\* C29: no error is retried or swallowed: when the token decoder fails in
\* verifySession, the request fails with AuthenticationError, ValidationError
\* or ResourceNotFoundError, or with the decoder's own error re-raised as it
\* was; the operation does not report success, attaches no user, and the
\* decoder is not called a second time.
C29_FailureMappedOrReraised ==
    [][last'.op = "verifyAuth" =>
         \A r \in TaskReqs, h \in Headers :
            (/\ verifyAuth(r, h)
             /\ verifyAuthToken(stripBearerToken(h)).threw)
            => /\ last'.outcome \in {AuthenticationError, ValidationError,
                                     ResourceNotFoundError, JsonWebTokenError}
               /\ last'.outcome # OK
               /\ req'[r] = IdleReq
               /\ last'.decoderCalls = 1
               /\ users' = users]_vars

\* C30: deleteUserAvatar by an authenticated user whose stored avatar paths
\* are the default paths assigned at sign-up, or 'no-profile', deletes
\* nothing from cloud storage, writes nothing to the store and succeeds,
\* the stored avatar paths staying as they were.
C30_DefaultAvatarIsNotDeleted ==
    [][last'.op = "deleteUserAvatar" =>
         \A r \in TaskReqs :
            (/\ deleteUserAvatar(r)
             /\ users[req[r].user._id].exists
             /\ users[req[r].user._id].avatarPaths
                   \in {getDefaultAvatarPaths, NoProfile})
            => /\ last'.outcome = OK
               /\ last'.blobDeletes = 0
               /\ last'.dbCalls = 0
               /\ users' = users]_vars

============================================================================
